---- MODULE Spec2Model ----
(***************************************************************************)
(* A model of iLibrary's Library class (src/app/iLibrary/src/Library.py):  *)
(* the saveLibrary orchestration, its helpers __crtsavf, __getZipFile and  *)
(* removeFile, the two metadata queries and the connection lifecycle.      *)
(*                                                                         *)
(* Texts are sequences of tokens: every character that comes from an       *)
(* argument is a one-character string, every literal fragment of an        *)
(* f-string is one token.  The characters are the visible characters of   *)
(* Basic Latin and the Latin-1 Supplement and the space; a name is a       *)
(* sequence of these.                                                      *)
(* "" is the empty sequence and None is a value of its own; a port of None *)
(* is 0.                                                                   *)
(*                                                                         *)
(* Every call on the command connection (cursor, execute, fetchall,        *)
(* commit, rollback) and on the transfer session (connect, open_sftp, get, *)
(* the two closes) either returns or raises; which one is chosen by the    *)
(* environment.                                                            *)
(***************************************************************************)
EXTENDS Integers, Sequences, FiniteSets, TLC

VARIABLES
    pc,           \* position of the running call: "idle", a step of saveLibrary, or "done"
    op,           \* the public operation that is running or has just ended
    args,         \* the arguments the caller passed
    loc,          \* saveLibrary's local variables after normalisation
    trace,        \* what the current call has done: commands, transactions, transfer session
    result,       \* what the call returned or raised
    conn,         \* self.conn: "unset" before __enter__, then "open" or "closed"
    containers,   \* save files on the host, as <<LIB, NAME>>
    streamFiles,  \* stream files on the host's IFS
    calls         \* number of public calls made so far

vars == <<pc, op, args, loc, trace, result, conn, containers, streamFiles, calls>>

(* Number of public calls in one behaviour. *)
MaxCalls == 2

----------------------------------------------------------------------------
(* str.upper() on the alphabet of the texts.  UpperPairs lists every       *)
(* character of the alphabet that str.upper() changes, with the characters *)
(* it becomes; Unchanged lists every character of the alphabet it leaves   *)
(* as it is.  Upper is defined on sequences over this alphabet and on      *)
(* nothing else: the grave accent, the soft hyphen, the no-break space, y  *)
(* with diaeresis and every character beyond U+00FF are outside it.        *)

UpperPairs ==
    {
      <<"a", <<"A">> >>, <<"b", <<"B">> >>, <<"c", <<"C">> >>, <<"d", <<"D">> >>,
      <<"e", <<"E">> >>, <<"f", <<"F">> >>, <<"g", <<"G">> >>, <<"h", <<"H">> >>,
      <<"i", <<"I">> >>, <<"j", <<"J">> >>, <<"k", <<"K">> >>, <<"l", <<"L">> >>,
      <<"m", <<"M">> >>, <<"n", <<"N">> >>, <<"o", <<"O">> >>, <<"p", <<"P">> >>,
      <<"q", <<"Q">> >>, <<"r", <<"R">> >>, <<"s", <<"S">> >>, <<"t", <<"T">> >>,
      <<"u", <<"U">> >>, <<"v", <<"V">> >>, <<"w", <<"W">> >>, <<"x", <<"X">> >>,
      <<"y", <<"Y">> >>, <<"z", <<"Z">> >>, <<"µ", <<"Μ">> >>, <<"ß", <<"S", "S">> >>,
      <<"à", <<"À">> >>, <<"á", <<"Á">> >>, <<"â", <<"Â">> >>, <<"ã", <<"Ã">> >>,
      <<"ä", <<"Ä">> >>, <<"å", <<"Å">> >>, <<"æ", <<"Æ">> >>, <<"ç", <<"Ç">> >>,
      <<"è", <<"È">> >>, <<"é", <<"É">> >>, <<"ê", <<"Ê">> >>, <<"ë", <<"Ë">> >>,
      <<"ì", <<"Ì">> >>, <<"í", <<"Í">> >>, <<"î", <<"Î">> >>, <<"ï", <<"Ï">> >>,
      <<"ð", <<"Ð">> >>, <<"ñ", <<"Ñ">> >>, <<"ò", <<"Ò">> >>, <<"ó", <<"Ó">> >>,
      <<"ô", <<"Ô">> >>, <<"õ", <<"Õ">> >>, <<"ö", <<"Ö">> >>, <<"ø", <<"Ø">> >>,
      <<"ù", <<"Ù">> >>, <<"ú", <<"Ú">> >>, <<"û", <<"Û">> >>, <<"ü", <<"Ü">> >>,
      <<"ý", <<"Ý">> >>, <<"þ", <<"Þ">> >>
    }

UpperTable ==
    [c \in {p[1] : p \in UpperPairs} |-> (CHOOSE p \in UpperPairs : p[1] = c)[2]]

Unchanged ==
    {
      " ", "!", "\"", "#", "$", "%", "&", "'", "(", ")", "*", "+",
      ",", "-", ".", "/", "0", "1", "2", "3", "4", "5", "6", "7",
      "8", "9", ":", ";", "<", "=", ">", "?", "@", "A", "B", "C",
      "D", "E", "F", "G", "H", "I", "J", "K", "L", "M", "N", "O",
      "P", "Q", "R", "S", "T", "U", "V", "W", "X", "Y", "Z", "[",
      "\\", "]", "^", "_", "{", "|", "}", "~", "¡", "¢", "£", "¤",
      "¥", "¦", "§", "¨", "©", "ª", "«", "¬", "®", "¯", "°", "±",
      "²", "³", "´", "¶", "·", "¸", "¹", "º", "»", "¼", "½", "¾",
      "¿", "À", "Á", "Â", "Ã", "Ä", "Å", "Æ", "Ç", "È", "É", "Ê",
      "Ë", "Ì", "Í", "Î", "Ï", "Ð", "Ñ", "Ò", "Ó", "Ô", "Õ", "Ö",
      "×", "Ø", "Ù", "Ú", "Û", "Ü", "Ý", "Þ", "÷"
    }

UpperChar(c) ==
    CASE c \in DOMAIN UpperTable -> UpperTable[c]
      [] c \in Unchanged -> <<c>>

RECURSIVE Upper(_)
Upper(s) == IF s = <<>> THEN <<>> ELSE UpperChar(Head(s)) \o Upper(Tail(s))

----------------------------------------------------------------------------
(* None, and the truth value of an argument *)

None == <<"None">>

(* not x *)
Falsy(x) == x = None \/ x = <<>>

----------------------------------------------------------------------------
(* Argument normalisation of saveLibrary and os.path.join *)

DefaultDescription == <<"A SaveFile from iLibrary">>
DefaultVersion == <<"*CURRENT">>
DefaultPort == 2222
MaxLibraryLen == 10

(* remPath[:-1] when remPath[-1] == '/' ; p is not empty *)
StripSlash(p) == IF p[Len(p)] = "/" THEN SubSeq(p, 1, Len(p) - 1) ELSE p

(* posixpath.join(a, b) *)
Join(a, b) ==
    IF b /= <<>> /\ b[1] = "/" THEN b
    ELSE IF a = <<>> \/ a[Len(a)] = "/" THEN a \o b
    ELSE a \o <<"/">> \o b

SavfPath(dir, saveFileName) == Join(dir, Upper(saveFileName) \o <<".savf">>)

----------------------------------------------------------------------------
(* The generated command texts *)

CrtsavfCommand_Swapped(library, saveFileName, description) ==
    <<"CRTSAVF FILE(">> \o Upper(saveFileName) \o <<"/">> \o Upper(library)
        \o <<") TEXT('">> \o description \o <<"')">>

CrtsavfCommand(library, saveFileName, description) ==
    <<"CRTSAVF FILE(">> \o Upper(library) \o <<"/">> \o Upper(saveFileName)
        \o <<") TEXT('">> \o description \o <<"')">>

SavlibCommand(library, toLibrary, saveFileName, version) ==
    <<"SAVLIB LIB(">> \o library \o <<") DEV(*SAVF) SAVF(">> \o toLibrary
        \o <<"/">> \o saveFileName \o <<") TGTRLS(">> \o version \o <<")">>

CpytostmfCommand(toLibrary, saveFileName, path) ==
    <<"CPYTOSTMF FROMMBR('/QSYS.LIB/">> \o Upper(toLibrary) \o <<".LIB/">>
        \o Upper(saveFileName) \o <<".FILE') TOSTMF('">> \o path
        \o <<"') STMFOPT(*REPLACE)">>

RmvCommand_WithoutSuffix(path) ==
    <<"QSH CMD('rm -r ">> \o SubSeq(path, 1, Len(path) - 1) \o <<"')">>

RmvCommand(path) == <<"QSH CMD('rm -r ">> \o path \o <<"')">>

DltfCommand(library, saveFileName) ==
    <<"DLTF FILE(">> \o Upper(library) \o <<"/">> \o Upper(saveFileName) \o <<")">>

LibraryInfoQuery(library) ==
    <<"SELECT * FROM TABLE(QSYS2.LIBRARY_INFO(upper('">> \o library \o <<"')))">>

FileInfoQuery(library, qFiles) ==
    IF qFiles
    THEN <<"SELECT * FROM QSYS2.SYSMEMBERSTAT WHERE SYSTEM_TABLE_SCHEMA = '">> \o library
            \o <<"' AND SOURCE_TYPE IS NOT NULL ORDER BY SYSTEM_TABLE_MEMBER">>
    ELSE <<"SELECT * FROM TABLE (QSYS2.OBJECT_STATISTICS('">> \o library
            \o <<"','*ALL') ) AS X">>

----------------------------------------------------------------------------
(* Events of the trace.  ok tells whether the call returned (TRUE) or      *)
(* raised (FALSE).                                                         *)

Event(ev, kind, text, ok, port, err) ==
    [ev |-> ev, kind |-> kind, text |-> text, ok |-> ok, port |-> port, err |-> err]

Cmd(kind, text, ok) == Event("cmd", kind, text, ok, 0, "")
Query(kind, text, ok) == Event("query", kind, text, ok, 0, "")
Tx(kind, ok) == Event("tx", kind, <<>>, ok, 0, "")
Ssh(kind, text, ok, port, err) == Event("ssh", kind, text, ok, port, err)

Commit == Tx("commit", TRUE)
Rollback == Tx("rollback", TRUE)

(* The save file a command names: the host's object names are upper case. *)
HostKey(library, saveFileName) == <<Upper(library), Upper(saveFileName)>>

----------------------------------------------------------------------------
(* The arguments the callers of the model pass *)

LongLibrary == <<"l","i","b","r","a","r","y","l","o","n","g">>

Libraries == {<<>>, None, <<"p","L">>, LongLibrary}
SaveFileNames == {<<>>, None, <<"s","V">>}
ToLibraries == {None, <<"t","ß">>}
Descriptions == {None, <<"d">>}
LocalPaths == {None, <<"/","t","/">>}
RemPaths == {<<>>, <<"/","h","/">>, <<"/">>}
Ports == {0, 8022}
Versions == {<<>>, <<"V","7">>}

NoArgs ==
    [library |-> <<>>, saveFileName |-> <<>>, toLibrary |-> <<>>, description |-> <<>>,
     localPath |-> <<>>, remPath |-> <<>>, getZip |-> FALSE, port |-> 0,
     remSavf |-> TRUE, version |-> <<>>, flag |-> FALSE]

NoLoc ==
    [toLibrary |-> <<>>, remPath |-> <<>>, localPath |-> <<>>, version |-> <<>>,
     remote_temp_savf_path |-> <<>>, destination_local_path |-> <<>>,
     zip_file_result |-> "none"]

Idle == pc = "idle"

CanCall == Idle /\ calls < MaxCalls

Init ==
    /\ pc = "idle"
    /\ op = "none"
    /\ args = NoArgs
    /\ loc = NoLoc
    /\ trace = <<>>
    /\ result = "none"
    /\ conn = "unset"
    /\ containers = {}
    /\ streamFiles = {}
    /\ calls = 0

----------------------------------------------------------------------------
(* __enter__ and iclose / __exit__ *)

Enter ==
    /\ Idle
    /\ conn /= "open"
    /\ conn' = "open"
    /\ UNCHANGED <<pc, op, args, loc, trace, result, containers, streamFiles, calls>>

(* if self.conn and not self.conn.closed: self.conn.close() *)
Iclose ==
    /\ Idle
    /\ conn /= "unset"
    /\ conn' = "closed"
    /\ UNCHANGED <<pc, op, args, loc, trace, result, containers, streamFiles, calls>>

----------------------------------------------------------------------------
(* The command connection.  On an open connection cursor() and execute()   *)
(* return or raise as the environment chooses, and so do commit() and      *)
(* rollback(); on a closed one each of them raises.  Before __enter__      *)
(* there is no self.conn at all and reading it raises AttributeError.      *)

DispatchOutcomes == {"ok", "error", "nocursor"}

(* what the connection allows: the outcome of the dispatch, and whether    *)
(* the commit or rollback after it returns                                 *)
ConnAllows(disp, txok) == conn = "closed" => (disp = "nocursor" /\ ~txok)

----------------------------------------------------------------------------
(* The remote host.  A command that raises changes nothing on the host; a  *)
(* command that succeeds has its effect.  DLTF can succeed only on a save  *)
(* file that exists and CRTSAVF only on one that does not; any command may *)
(* fail.  commit and rollback have no effect on the host's objects.        *)

HostAccepts(kind, key) ==
    CASE kind = "CRTSAVF" -> key \notin containers
      [] kind = "DLTF" -> key \in containers
      [] OTHER -> TRUE

ContainersAfter(kind, key, ok) ==
    CASE ok /\ kind = "CRTSAVF" -> containers \cup {key}
      [] ok /\ kind = "DLTF" -> containers \ {key}
      [] OTHER -> containers

StreamFilesAfter(kind, path, ok) ==
    CASE ok /\ kind = "CPYTOSTMF" -> streamFiles \cup {path}
      [] ok /\ kind = "QSH" -> streamFiles \ {path}
      [] OTHER -> streamFiles

----------------------------------------------------------------------------
(* saveLibrary: argument checks and defaults *)

(* remPath and localPath are only required together *)
ValidationError_PathPair(a) ==
    \/ Falsy(a.library)
    \/ Falsy(a.saveFileName)
    \/ a.getZip /\ (Falsy(a.remPath) /\ Falsy(a.localPath))

ValidationError(a) ==
    \/ Falsy(a.library)
    \/ Falsy(a.saveFileName)
    \/ a.getZip /\ (Falsy(a.remPath) \/ Falsy(a.localPath))

Normalise(a) ==
    [toLibrary |-> IF Falsy(a.toLibrary) THEN a.library ELSE a.toLibrary,
     remPath |-> IF a.getZip /\ ~Falsy(a.remPath) THEN StripSlash(a.remPath) ELSE a.remPath,
     localPath |-> IF a.getZip /\ ~Falsy(a.localPath)
                   THEN StripSlash(a.localPath) ELSE a.localPath,
     version |-> IF Falsy(a.version) THEN DefaultVersion ELSE a.version,
     remote_temp_savf_path |-> <<>>,
     destination_local_path |-> <<>>,
     zip_file_result |-> "none"]

SaveLibraryArgs ==
    [library : Libraries, saveFileName : SaveFileNames, toLibrary : ToLibraries,
     description : Descriptions, localPath : LocalPaths, remPath : RemPaths,
     getZip : BOOLEAN, port : Ports, remSavf : BOOLEAN, version : Versions,
     flag : {FALSE}]

SaveLibraryCall ==
    /\ CanCall
    /\ \E a \in SaveLibraryArgs :
        /\ args' = a
        /\ IF ValidationError(a)
           THEN /\ pc' = "done"
                /\ result' = "ValueError"
                /\ loc' = NoLoc
           ELSE /\ pc' = "crtsavf"
                /\ result' = "none"
                /\ loc' = Normalise(a)
    /\ op' = "saveLibrary"
    /\ trace' = <<>>
    /\ calls' = calls + 1
    /\ UNCHANGED <<conn, containers, streamFiles>>

----------------------------------------------------------------------------
(* __crtsavf and removeFile: one command, then commit or rollback *)

(* except: self.conn.rollback() / else: self.conn.commit() *)
TxAfter(ok, txok) == Tx(IF ok THEN "commit" ELSE "rollback", txok)

(* the command reaches the host unless cursor() raised *)
CrtsavfTrace(saveFileName, library, description, disp, txok) ==
    (IF disp = "nocursor"
     THEN <<>>
     ELSE <<Cmd("CRTSAVF",
                CrtsavfCommand(library, saveFileName,
                               IF Falsy(description) THEN DefaultDescription
                               ELSE description),
                disp = "ok")>>)
    \o <<TxAfter(disp = "ok", txok)>>

RemoveFileTrace(library, saveFileName, disp, txok) ==
    (IF disp = "nocursor"
     THEN <<>>
     ELSE <<Cmd("DLTF", DltfCommand(library, saveFileName), disp = "ok")>>)
    \o <<TxAfter(disp = "ok", txok)>>

(* what __crtsavf and removeFile give their caller: True after the commit, *)
(* False after the rollback, or the error of a commit or rollback that     *)
(* raised                                                                  *)
CommandReturn(ok, txok) == IF ~txok THEN "Error" ELSE IF ok THEN "True" ELSE "False"

(* if self.__crtsavf(...): ... ; return False *)
CrtsavfNext(ret) == IF ret = "True" THEN "savlib" ELSE "done"

CrtsavfStep ==
    /\ pc = "crtsavf"
    /\ IF Falsy(args.saveFileName) \/ Falsy(loc.toLibrary)
       THEN /\ pc' = "done"
            /\ result' = "ValueError"
            /\ UNCHANGED <<trace, containers>>
       ELSE IF conn = "unset"
       THEN /\ pc' = "done"
            /\ result' = "AttributeError"
            /\ UNCHANGED <<trace, containers>>
       ELSE \E disp \in DispatchOutcomes, txok \in BOOLEAN :
            LET ok == disp = "ok"
                ret == CommandReturn(ok, txok)
            IN  /\ ConnAllows(disp, txok)
                /\ ok => HostAccepts("CRTSAVF", HostKey(loc.toLibrary, args.saveFileName))
                /\ trace' = trace \o CrtsavfTrace(args.saveFileName, loc.toLibrary,
                                                  args.description, disp, txok)
                /\ containers' = ContainersAfter("CRTSAVF",
                                     HostKey(loc.toLibrary, args.saveFileName), ok)
                /\ pc' = CrtsavfNext(ret)
                /\ result' = IF CrtsavfNext(ret) /= "done" THEN "none"
                             ELSE IF ret = "Error" THEN "Error" ELSE "False"
    /\ UNCHANGED <<op, args, loc, conn, streamFiles, calls>>

----------------------------------------------------------------------------
(* saveLibrary: SAVLIB, then the transfer block when getZip *)

SavlibNext_RemoveWithoutZip(ok, getZip) ==
    IF ~ok THEN "done" ELSE IF getZip THEN "cpytostmf" ELSE "dltf"

SavlibNext_AlwaysTransfer(ok, getZip) ==
    IF ~ok THEN "done" ELSE "cpytostmf"

(* a failed SAVLIB reaches the outer except; otherwise the getZip block or the else clause *)
SavlibNext(ok, getZip) ==
    IF ~ok THEN "done" ELSE IF getZip THEN "cpytostmf" ELSE "commit"

SavlibStep ==
    /\ pc = "savlib"
    /\ \E disp \in DispatchOutcomes, txok \in BOOLEAN :
        LET ok == disp = "ok"
        IN  /\ ConnAllows(disp, txok)
            /\ trace' = trace
                    \o (IF disp = "nocursor"
                        THEN <<>>
                        ELSE <<Cmd("SAVLIB",
                                   SavlibCommand(args.library, loc.toLibrary,
                                                 args.saveFileName, loc.version),
                                   ok)>>)
                    \o (IF ok THEN <<>> ELSE <<Tx("rollback", txok)>>)
            /\ pc' = SavlibNext(ok, args.getZip)
            /\ result' = IF ok THEN "none" ELSE IF txok THEN "False" ELSE "Error"
    /\ UNCHANGED <<op, args, loc, conn, containers, streamFiles, calls>>

CpytostmfNext_Retry(ok) == IF ok THEN "download" ELSE "cpytostmf"

(* an exception inside the inner try is printed by the inner except *)
CpytostmfNext(ok) == IF ok THEN "download" ELSE "commit"

CpytostmfStep ==
    /\ pc = "cpytostmf"
    /\ LET remote == SavfPath(loc.remPath, args.saveFileName)
           local == SavfPath(loc.localPath, args.saveFileName)
       IN  /\ loc' = [loc EXCEPT !.remote_temp_savf_path = remote,
                                 !.destination_local_path = local]
           /\ \E ok \in BOOLEAN :
                /\ trace' = trace
                      \o <<Cmd("CPYTOSTMF",
                               CpytostmfCommand(loc.toLibrary, args.saveFileName, remote),
                               ok)>>
                /\ streamFiles' = StreamFilesAfter("CPYTOSTMF", remote, ok)
                /\ pc' = CpytostmfNext(ok)
    /\ UNCHANGED <<op, args, result, conn, containers, calls>>

----------------------------------------------------------------------------
(* __getZipFile.  The transfer session makes up to five calls, in this     *)
(* order: connect, open_sftp, get, the close of the sftp client on leaving *)
(* the inner with, the close of the ssh client on leaving the outer with.  *)
(* A call that raises skips the calls of the block it is in, but the close *)
(* of every with that was entered still runs and may raise too.  An        *)
(* outcome gives for every call whether it returned (""), what it raised,  *)
(* or that it was not made; the handlers see the exception raised last.    *)

DownloadStages == <<"connect", "open_sftp", "get", "sftp_close", "close">>
DownloadErrors == {"auth", "ssh", "notfound", "other"}
NotCalled == "not called"
CallResults == {""} \cup DownloadErrors

DownloadOutcomes ==
    {o \in [connect : CallResults,
            open_sftp : CallResults \cup {NotCalled},
            get : CallResults \cup {NotCalled},
            sftp_close : CallResults \cup {NotCalled},
            close : CallResults] :
        /\ (o.open_sftp = NotCalled) <=> (o.connect /= "")
        /\ (o.get = NotCalled) <=> (o.open_sftp /= "")
        /\ (o.sftp_close = NotCalled) <=> (o.open_sftp /= "")}

(* every call returned *)
Fetched ==
    [connect |-> "", open_sftp |-> "", get |-> "", sftp_close |-> "", close |-> ""]

(* the exception that leaves the two with blocks: the one raised last; "" if none *)
RECURSIVE LastRaisedFrom(_, _)
LastRaisedFrom(outcome, n) ==
    IF n = 0 THEN ""
    ELSE IF outcome[DownloadStages[n]] \in DownloadErrors THEN outcome[DownloadStages[n]]
    ELSE LastRaisedFrom(outcome, n - 1)

LastRaised(outcome) == LastRaisedFrom(outcome, Len(DownloadStages))

ConnectPort_SshDefault(port) == IF port = 0 THEN 22 ELSE port

ConnectPort(port) == IF port = 0 THEN DefaultPort ELSE port

GetZipFileReturn_NotFoundRaises(localFilePath, remotePath, outcome) ==
    IF Falsy(localFilePath) \/ Falsy(remotePath) THEN "False"
    ELSE CASE LastRaised(outcome) = "" -> "True"
           [] LastRaised(outcome) \in {"auth", "ssh"} -> "False"
           [] OTHER -> "raise"

(* what __getZipFile gives its caller: True, False, or an exception it does not catch *)
GetZipFileReturn(localFilePath, remotePath, outcome) ==
    IF Falsy(localFilePath) \/ Falsy(remotePath) THEN "False"
    ELSE CASE LastRaised(outcome) = "" -> "True"
           [] LastRaised(outcome) \in {"auth", "ssh", "notfound"} -> "False"
           [] OTHER -> "raise"

GetZipFileTrace_NoCloseOnError(localFilePath, remotePath, port, outcome) ==
    IF Falsy(localFilePath) \/ Falsy(remotePath) THEN <<>>
    ELSE LET p == ConnectPort(port)
         IN  <<Ssh("connect", <<>>, outcome.connect = "", p, outcome.connect)>>
             \o (IF outcome.get = NotCalled THEN <<>>
                 ELSE <<Ssh("get", remotePath, outcome.get = "", p, outcome.get)>>)
             \o (IF outcome = Fetched
                 THEN <<Ssh("close", <<>>, TRUE, p, "")>> ELSE <<>>)

(* connect, get and the close of "with ssh_client", which is called on     *)
(* every exit; err names what the call raised.  open_sftp and the close of *)
(* the sftp client are no events of their own.                             *)
GetZipFileTrace(localFilePath, remotePath, port, outcome) ==
    IF Falsy(localFilePath) \/ Falsy(remotePath) THEN <<>>
    ELSE LET p == ConnectPort(port)
         IN  <<Ssh("connect", <<>>, outcome.connect = "", p, outcome.connect)>>
             \o (IF outcome.get = NotCalled THEN <<>>
                 ELSE <<Ssh("get", remotePath, outcome.get = "", p, outcome.get)>>)
             \o <<Ssh("close", <<>>, outcome.close = "", p, outcome.close)>>

DownloadNext_AlwaysRm(ret) == "rm"

DownloadNext_FailureRemoves(ret) == IF ret = "True" THEN "rm" ELSE "dltf"

(* if self.__getZipFile(...): rm ... else: raise ValueError, caught by the inner except *)
DownloadNext(ret) == IF ret = "True" THEN "rm" ELSE "commit"

DownloadStep ==
    /\ pc = "download"
    /\ \E outcome \in DownloadOutcomes :
        LET ret == GetZipFileReturn(loc.destination_local_path,
                                    loc.remote_temp_savf_path, outcome)
        IN  /\ trace' = trace \o GetZipFileTrace(loc.destination_local_path,
                                                 loc.remote_temp_savf_path, args.port,
                                                 outcome)
            /\ loc' = [loc EXCEPT !.zip_file_result = ret]
            /\ pc' = DownloadNext(ret)
    /\ UNCHANGED <<op, args, result, conn, containers, streamFiles, calls>>

----------------------------------------------------------------------------
(* saveLibrary: removal of the stream file and of the save file *)

RmNext_IgnoreFailure(ok, remSavf) == IF remSavf THEN "dltf" ELSE "commit"

RmNext(ok, remSavf) == IF ok /\ remSavf THEN "dltf" ELSE "commit"

RmStep ==
    /\ pc = "rm"
    /\ \E ok \in BOOLEAN :
        /\ trace' = trace \o <<Cmd("QSH", RmvCommand(loc.remote_temp_savf_path), ok)>>
        /\ streamFiles' = StreamFilesAfter("QSH", loc.remote_temp_savf_path, ok)
        /\ pc' = RmNext(ok, args.remSavf)
    /\ UNCHANGED <<op, args, loc, result, conn, containers, calls>>

(* if not self.removeFile(...): raise ValueError; that, and whatever       *)
(* removeFile itself raises, is caught by the inner except                 *)
DltfNext(ret) == "commit"

DltfStep ==
    /\ pc = "dltf"
    /\ \E disp \in DispatchOutcomes, txok \in BOOLEAN :
        LET ok == disp = "ok"
        IN  /\ ConnAllows(disp, txok)
            /\ ok => HostAccepts("DLTF", HostKey(loc.toLibrary, args.saveFileName))
            /\ trace' = trace \o RemoveFileTrace(loc.toLibrary, args.saveFileName,
                                                 disp, txok)
            /\ containers' = ContainersAfter("DLTF",
                                 HostKey(loc.toLibrary, args.saveFileName), ok)
            /\ pc' = DltfNext(CommandReturn(ok, txok))
    /\ UNCHANGED <<op, args, loc, result, conn, streamFiles, calls>>

CommitStep_ClosesConnection ==
    /\ pc = "commit"
    /\ \E txok \in BOOLEAN :
        /\ conn = "closed" => ~txok
        /\ trace' = trace \o <<Tx("commit", txok)>>
        /\ result' = IF txok THEN "True" ELSE "Error"
    /\ pc' = "done"
    /\ conn' = "closed"
    /\ UNCHANGED <<op, args, loc, containers, streamFiles, calls>>

(* the else clause of the outer try *)
CommitStep ==
    /\ pc = "commit"
    /\ \E txok \in BOOLEAN :
        /\ conn = "closed" => ~txok
        /\ trace' = trace \o <<Tx("commit", txok)>>
        /\ result' = IF txok THEN "True" ELSE "Error"
    /\ pc' = "done"
    /\ UNCHANGED <<op, args, loc, conn, containers, streamFiles, calls>>

----------------------------------------------------------------------------
(* The other public operations *)

RemoveFileReturn_AlwaysTrue(ok, txok) == "True"

(* return False after the rollback, return True after the commit; a commit *)
(* or rollback that raises is not caught                                   *)
RemoveFileReturn(ok, txok) == CommandReturn(ok, txok)

(* library.upper() and saveFileName.upper() come first: None has no upper *)
RemoveFileCall ==
    /\ CanCall
    /\ \E library \in Libraries, saveFileName \in SaveFileNames :
        /\ args' = [NoArgs EXCEPT !.library = library, !.saveFileName = saveFileName]
        /\ IF library = None \/ saveFileName = None \/ conn = "unset"
           THEN /\ trace' = <<>>
                /\ result' = "AttributeError"
                /\ UNCHANGED containers
           ELSE \E disp \in DispatchOutcomes, txok \in BOOLEAN :
                LET ok == disp = "ok"
                IN  /\ ConnAllows(disp, txok)
                    /\ ok => HostAccepts("DLTF", HostKey(library, saveFileName))
                    /\ trace' = RemoveFileTrace(library, saveFileName, disp, txok)
                    /\ containers' = ContainersAfter("DLTF",
                                         HostKey(library, saveFileName), ok)
                    /\ result' = RemoveFileReturn(ok, txok)
    /\ op' = "removeFile"
    /\ pc' = "done"
    /\ loc' = NoLoc
    /\ calls' = calls + 1
    /\ UNCHANGED <<conn, streamFiles>>

(* what a query can meet: cursor() raises, execute raises, fetchall        *)
(* raises, no row, rows, rows with a value json.dumps cannot write         *)
QueryOutcomes == {"nocursor", "error", "fetch_error", "norows", "rows", "rows_unserialisable"}

(* the query reached the host; ok unless execute raised *)
QueryTrace(kind, text, outcome) ==
    IF outcome = "nocursor" THEN <<>> ELSE <<Query(kind, text, outcome /= "error")>>

(* if not library / if len(library) > 10 *)
LibraryInfoRejects(library) == Falsy(library) \/ Len(library) > MaxLibraryLen

(* getInfoForLibrary converts no value before json.dumps; every exception  *)
(* inside the try gives None                                               *)
LibraryInfoReturn(outcome, wantJson) ==
    CASE outcome = "norows" -> "nodata"
      [] outcome = "rows" -> "data"
      [] outcome = "rows_unserialisable" -> IF wantJson THEN "None" ELSE "data"
      [] OTHER -> "None"

GetInfoForLibrary ==
    /\ CanCall
    /\ \E library \in Libraries, wantJson \in BOOLEAN, outcome \in QueryOutcomes :
        /\ args' = [NoArgs EXCEPT !.library = library, !.flag = wantJson]
        /\ conn /= "open" => outcome = "nocursor"
        /\ IF LibraryInfoRejects(library)
           THEN /\ trace' = <<>>
                /\ result' = "ValueError"
           ELSE /\ trace' = QueryTrace("LIBRARY_INFO", LibraryInfoQuery(library), outcome)
                /\ result' = LibraryInfoReturn(outcome, wantJson)
    /\ op' = "getInfoForLibrary"
    /\ pc' = "done"
    /\ loc' = NoLoc
    /\ calls' = calls + 1
    /\ UNCHANGED <<conn, containers, streamFiles>>

(* if not library *)
FileInfoRejects(library) == Falsy(library)

(* getFileInfo: no row returns inside the try, with neither commit nor     *)
(* rollback; rows are committed; every exception is rolled back            *)
FileInfoTx(outcome, txok) ==
    CASE outcome = "norows" -> <<>>
      [] outcome = "rows" -> <<Tx("commit", txok)>>
      [] OTHER -> <<Tx("rollback", txok)>>

FileInfoReturn(outcome, txok) ==
    CASE outcome = "norows" -> "nodata"
      [] ~txok -> "Error"
      [] outcome = "rows" -> "data"
      [] OTHER -> "False"

GetFileInfo ==
    /\ CanCall
    /\ \E library \in Libraries, qFiles \in BOOLEAN, outcome \in QueryOutcomes,
          txok \in BOOLEAN :
        /\ args' = [NoArgs EXCEPT !.library = library, !.flag = qFiles]
        /\ ConnAllows(outcome, txok)
        /\ IF FileInfoRejects(library)
           THEN /\ trace' = <<>>
                /\ result' = "ValueError"
           ELSE IF conn = "unset"
           THEN /\ trace' = <<>>
                /\ result' = "AttributeError"
           ELSE /\ trace' = QueryTrace("FILE_INFO", FileInfoQuery(library, qFiles), outcome)
                             \o FileInfoTx(outcome, txok)
                /\ result' = FileInfoReturn(outcome, txok)
    /\ op' = "getFileInfo"
    /\ pc' = "done"
    /\ loc' = NoLoc
    /\ calls' = calls + 1
    /\ UNCHANGED <<conn, containers, streamFiles>>

(* The caller has the result and goes on to its next statement. *)
Return ==
    /\ pc = "done"
    /\ pc' = "idle"
    /\ op' = "none"
    /\ args' = NoArgs
    /\ loc' = NoLoc
    /\ trace' = <<>>
    /\ result' = "none"
    /\ UNCHANGED <<conn, containers, streamFiles, calls>>

----------------------------------------------------------------------------

Next ==
    \/ Enter
    \/ Iclose
    \/ SaveLibraryCall
    \/ CrtsavfStep
    \/ SavlibStep
    \/ CpytostmfStep
    \/ DownloadStep
    \/ RmStep
    \/ DltfStep
    \/ CommitStep
    \/ RemoveFileCall
    \/ GetInfoForLibrary
    \/ GetFileInfo
    \/ Return

Spec == Init /\ [][Next]_vars

----------------------------------------------------------------------------
(* Readings of the trace of the current call *)

Events(ev, kind) == {i \in 1..Len(trace) : trace[i].ev = ev /\ trace[i].kind = kind}
Dispatched(kind) == Events("cmd", kind) /= {}
Succeeded(kind) == \E i \in Events("cmd", kind) : trace[i].ok
Failed(kind) == \E i \in Events("cmd", kind) : ~trace[i].ok
Commands == SelectSeq(trace, LAMBDA e : e.ev = "cmd")
RemoteCalls == {i \in 1..Len(trace) : trace[i].ev \in {"cmd", "query", "ssh"}}
Transactions == {i \in 1..Len(trace) : trace[i].ev = "tx"}
TxRaised == \E i \in Transactions : ~trace[i].ok
SessionOpened == Events("ssh", "connect") /= {}
DownloadTried == SessionOpened
DownloadOk == DownloadTried /\ loc.zip_file_result = "True"
DownloadFailed == DownloadTried /\ loc.zip_file_result \in {"False", "raise"}
DownloadFailures == {i \in 1..Len(trace) : trace[i].ev = "ssh" /\ ~trace[i].ok}
DownloadFailedWith(errs) == \E i \in DownloadFailures : trace[i].err \in errs
Max0(S) == IF S = {} THEN 0 ELSE CHOOSE m \in S : \A n \in S : n <= m
RolledBack == Events("tx", "rollback") /= {}
InSaveLibrary == op = "saveLibrary"
(* the save file named by the two arguments is among the given save files *)
OnHost(library, saveFileName, files) ==
    /\ library /= None /\ saveFileName /= None
    /\ <<Upper(library), Upper(saveFileName)>> \in files
Returned == pc = "done"

TypeOK ==
    /\ pc \in {"idle", "crtsavf", "savlib", "cpytostmf", "download", "rm", "dltf",
               "commit", "done"}
    /\ result \in {"none", "True", "False", "ValueError", "AttributeError", "Error",
                   "None", "data", "nodata"}
    /\ conn \in {"unset", "open", "closed"}
    /\ calls \in 0..MaxCalls

----------------------------------------------------------------------------
(* Properties of saveLibrary and of the other public operations *)

CommandKinds == {"CRTSAVF", "SAVLIB", "CPYTOSTMF", "QSH", "DLTF"}
NamedDownloadErrors == {"auth", "ssh", "notfound"}

(* C1: a saveLibrary call with getZip=True in which CRTSAVF, SAVLIB and    *)
(* CPYTOSTMF succeed and the download fails (authentication, SSH error or  *)
(* file not found) returns False or raises; it never returns True.         *)
C1_DownloadFailureEndsInFailure ==
    (/\ InSaveLibrary /\ Returned /\ args.getZip
     /\ Succeeded("CRTSAVF") /\ Succeeded("SAVLIB") /\ Succeeded("CPYTOSTMF")
     /\ DownloadFailed /\ loc.zip_file_result = "False")
    => result /= "True"

(* C2: with getZip=True and remSavf=True, when the download succeeds and   *)
(* the DLTF of removeFile fails, an error is raised out of saveLibrary:    *)
(* the call returns neither True nor the plain False.                      *)
C2_RemoveFailureIsRaised ==
    (/\ InSaveLibrary /\ Returned /\ args.getZip /\ args.remSavf
     /\ DownloadOk /\ Failed("DLTF"))
    => result \notin {"True", "False"}

(* C3: when the dispatch of any of the five commands fails, a rollback is  *)
(* issued on the command connection and saveLibrary does not return True.  *)
C3_CommandFailureRollsBack ==
    \A kind \in CommandKinds :
        (InSaveLibrary /\ Returned /\ Failed(kind))
        => (RolledBack /\ result /= "True")

(* C4: when CRTSAVF fails, no other command is dispatched, no transfer     *)
(* session is opened, and the call returns False.                          *)
C4_CrtsavfFailureStops ==
    (InSaveLibrary /\ Failed("CRTSAVF"))
    => /\ \A kind \in CommandKinds \ {"CRTSAVF"} : ~Dispatched(kind)
       /\ ~SessionOpened
       /\ Returned
       /\ result = "False"

(* C5: after a failed download, neither QSH rm nor DLTF is dispatched in   *)
(* the rest of the call.                                                   *)
C5_NoCleanupAfterDownloadFailure ==
    (InSaveLibrary /\ DownloadFailed) =>
        \A i \in Events("ssh", "connect") :
            \A j \in (i + 1)..Len(trace) :
                ~(trace[j].ev = "cmd" /\ trace[j].kind \in {"QSH", "DLTF"})

C5_Witness ==
    /\ InSaveLibrary /\ Returned /\ args.remSavf
    /\ loc.zip_file_result = "raise"
    /\ \E i \in Events("ssh", "get") : trace[i].err = "notfound"
    /\ \E i \in Events("ssh", "close") : trace[i].err = "other"

(* C6: with getZip false no transfer session is opened at any point of the *)
(* call, whatever localPath, remPath, port and remSavf are.                *)
C6_NoSessionWithoutGetZip ==
    (InSaveLibrary /\ ~args.getZip) => \A i \in 1..Len(trace) : trace[i].ev /= "ssh"

C6_Witness ==
    /\ InSaveLibrary /\ Returned /\ ~args.getZip /\ result = "True"
    /\ ~Falsy(args.localPath) /\ ~Falsy(args.remPath) /\ args.port /= 0 /\ args.remSavf

(* C7: saveLibrary, removeFile, getInfoForLibrary and getFileInfo reject a *)
(* library identifier longer than 10 characters with an error before any   *)
(* remote command, query or transfer is dispatched.                        *)
C7_LongLibraryRejected ==
    (/\ op \in {"saveLibrary", "removeFile", "getInfoForLibrary", "getFileInfo"}
     /\ Len(args.library) > 10)
    => /\ RemoteCalls = {}
       /\ Returned => result \in {"ValueError", "AttributeError", "Error"}

(* C8: an empty library, an empty saveFileName, or getZip=True with        *)
(* remPath or localPath missing makes saveLibrary raise ValueError with no *)
(* remote command dispatched, no commit or rollback issued and no transfer *)
(* session opened.                                                         *)
C8_InvalidArgumentsRaiseFirst ==
    (/\ InSaveLibrary
     /\ \/ Falsy(args.library)
        \/ Falsy(args.saveFileName)
        \/ args.getZip /\ Falsy(args.remPath)
        \/ args.getZip /\ Falsy(args.localPath))
    => /\ Returned
       /\ result = "ValueError"
       /\ RemoteCalls = {}
       /\ Transactions = {}

C8_Witness ==
    /\ InSaveLibrary /\ Returned /\ result = "ValueError"
    /\ ~Falsy(args.library) /\ ~Falsy(args.saveFileName)
    /\ args.getZip /\ ~Falsy(args.remPath) /\ Falsy(args.localPath)

(* C9: when CRTSAVF succeeds and SAVLIB fails, a rollback is issued, the   *)
(* call returns False, no DLTF is dispatched and the save file created by  *)
(* CRTSAVF still exists on the host when the call returns.                 *)
C9_SavlibFailureKeepsContainer ==
    (InSaveLibrary /\ Succeeded("CRTSAVF") /\ Failed("SAVLIB"))
    => /\ \E i \in Events("tx", "rollback") : i > Max0(Events("cmd", "SAVLIB"))
       /\ Returned
       /\ result = "False"
       /\ ~Dispatched("DLTF")
       /\ <<Upper(IF Falsy(args.toLibrary) THEN args.library ELSE args.toLibrary),
            Upper(args.saveFileName)>> \in containers

(* C10: with getZip false and both commands successful, the commands       *)
(* dispatched are exactly CRTSAVF FILE(<LIB>/<NAME>) TEXT('<description or *)
(* A SaveFile from iLibrary>') and then SAVLIB LIB(<library>) DEV( *SAVF)  *)
(* SAVF(<toLibrary>/<saveFileName>) TGTRLS(<version or *CURRENT>), and the *)
(* call returns True.                                                      *)
C10_TwoCommandsWithoutGetZip ==
    (/\ InSaveLibrary /\ Returned /\ ~args.getZip
     /\ Succeeded("CRTSAVF") /\ Succeeded("SAVLIB"))
    => LET owner == IF Falsy(args.toLibrary) THEN args.library ELSE args.toLibrary
           text == IF Falsy(args.description)
                   THEN <<"A SaveFile from iLibrary">> ELSE args.description
           release == IF Falsy(args.version) THEN <<"*CURRENT">> ELSE args.version
       IN  /\ Len(Commands) = 2
           /\ Commands[1].kind = "CRTSAVF"
           /\ Commands[1].text =
                <<"CRTSAVF FILE(">> \o Upper(owner) \o <<"/">> \o Upper(args.saveFileName)
                    \o <<") TEXT('">> \o text \o <<"')">>
           /\ Commands[2].kind = "SAVLIB"
           /\ Commands[2].text =
                <<"SAVLIB LIB(">> \o args.library \o <<") DEV(*SAVF) SAVF(">> \o owner
                    \o <<"/">> \o args.saveFileName \o <<") TGTRLS(">> \o release \o <<")">>
           /\ result = "True"

----------------------------------------------------------------------------
(* Readings used by the properties below *)

(* the library that owns the save file of the current call *)
Owner ==
    IF op = "saveLibrary" /\ ~Falsy(args.toLibrary) THEN args.toLibrary ELSE args.library

(* sub occurs in text as a contiguous piece *)
Contains(text, sub) ==
    \E k \in 0..(Len(text) - Len(sub)) : SubSeq(text, k + 1, k + Len(sub)) = sub

HasDoubleSlash(path) ==
    \E k \in 1..(Len(path) - 1) : path[k] = "/" /\ path[k + 1] = "/"

(* the steps of saveLibrary in the order of the source; 0 for any other event *)
StepRank(e) ==
    CASE e.ev = "cmd" /\ e.kind = "CRTSAVF" -> 1
      [] e.ev = "cmd" /\ e.kind = "SAVLIB" -> 2
      [] e.ev = "cmd" /\ e.kind = "CPYTOSTMF" -> 3
      [] e.ev = "ssh" /\ e.kind = "connect" -> 4
      [] e.ev = "cmd" /\ e.kind = "QSH" -> 5
      [] e.ev = "cmd" /\ e.kind = "DLTF" -> 6
      [] OTHER -> 0

(* event j shows that the step of the given rank succeeded *)
StepSucceededAt(rank, j) ==
    IF rank = 4
    THEN trace[j].ev = "ssh" /\ trace[j].kind = "get" /\ trace[j].ok /\ DownloadOk
    ELSE StepRank(trace[j]) = rank /\ trace[j].ok

----------------------------------------------------------------------------
(* Properties of the command texts, the download and the step order *)

(* C11: in every CRTSAVF, SAVLIB, CPYTOSTMF and DLTF text generated by     *)
(* saveLibrary and removeFile the save file name and its owner library     *)
(* appear upper-cased, also for lower-case and mixed-case arguments.       *)
C11_NamesUpperCased ==
    (op \in {"saveLibrary", "removeFile"}) =>
        \A i \in 1..Len(trace) :
            (trace[i].ev = "cmd"
                /\ trace[i].kind \in {"CRTSAVF", "SAVLIB", "CPYTOSTMF", "DLTF"})
            => \/ Contains(trace[i].text,
                           Upper(Owner) \o <<"/">> \o Upper(args.saveFileName))
               \/ Contains(trace[i].text,
                           Upper(Owner) \o <<".LIB/">> \o Upper(args.saveFileName))

(* C12: with getZip=True the remote temp path is strip(remPath) + "/" +    *)
(* upper(saveFileName) + ".savf" and the local path is strip(localPath) +  *)
(* "/" + upper(saveFileName) + ".savf", strip removing exactly one         *)
(* trailing slash; neither has a double slash.                             *)
C12_PathsFromDirectories ==
    (InSaveLibrary /\ Dispatched("CPYTOSTMF")) =>
        LET strip(q) == IF q[Len(q)] = "/" THEN SubSeq(q, 1, Len(q) - 1) ELSE q
            file == Upper(args.saveFileName) \o <<".savf">>
        IN  /\ loc.remote_temp_savf_path = strip(args.remPath) \o <<"/">> \o file
            /\ loc.destination_local_path = strip(args.localPath) \o <<"/">> \o file
            /\ ~HasDoubleSlash(loc.remote_temp_savf_path)
            /\ ~HasDoubleSlash(loc.destination_local_path)

(* C13: removeFile on a save file that does not exist on the host reports  *)
(* failure (False or an error, never True) and leaves the set of save      *)
(* files on the host unchanged.                                            *)
C13_RemoveMissingFails ==
    [][(/\ pc = "idle" /\ pc' = "done" /\ op' = "removeFile"
        /\ ~OnHost(args'.library, args'.saveFileName, containers))
       => (result' \in {"False", "Error", "AttributeError"}
           /\ containers' = containers)]_vars

C13_Witness ==
    /\ op = "removeFile" /\ Returned /\ calls = 2
    /\ result = "False" /\ Failed("DLTF")
    /\ ~Falsy(args.library) /\ ~Falsy(args.saveFileName)
    /\ ~OnHost(args.library, args.saveFileName, containers)

(* C14: the download step reports authentication failure, SSH error and    *)
(* file not found to its caller as three distinct outcomes.                *)
C14_FailureKindsDistinct ==
    (pc = "download") =>
        \A o1, o2 \in DownloadOutcomes :
            (LastRaised(o1) \in NamedDownloadErrors /\ LastRaised(o2) \in NamedDownloadErrors
                /\ LastRaised(o1) /= LastRaised(o2))
            => GetZipFileReturn(loc.destination_local_path, loc.remote_temp_savf_path, o1)
               /= GetZipFileReturn(loc.destination_local_path, loc.remote_temp_savf_path, o2)

(* C14 as amended: when the error that ends the transfer session, the one  *)
(* raised last in it, is an authentication failure, an SSH error or file   *)
(* not found, the download step gives its caller False, the same for all   *)
(* three.  Checked on every outcome the step can take, and in the trace    *)
(* wherever the trace shows the error raised last: the error of the close, *)
(* or the error of connect when the close returned.                        *)
C14_FailureKindsAllFalse ==
    InSaveLibrary =>
        /\ pc = "download" =>
            \A o \in DownloadOutcomes :
                LastRaised(o) \in NamedDownloadErrors
                => GetZipFileReturn(loc.destination_local_path,
                                    loc.remote_temp_savf_path, o) = "False"
        /\ \A c \in Events("ssh", "close") :
            /\ trace[c].err \in NamedDownloadErrors => loc.zip_file_result = "False"
            /\ (trace[c].ok /\ \E i \in Events("ssh", "connect") :
                                    trace[i].err \in NamedDownloadErrors)
                => loc.zip_file_result = "False"

C14_Witness ==
    /\ InSaveLibrary /\ Returned
    /\ loc.zip_file_result = "False"
    /\ \E i \in Events("ssh", "get") : trace[i].err = "other"
    /\ \E i \in Events("ssh", "close") : trace[i].err = "notfound"

(* C15: with getZip=True and no port the transfer session connects to      *)
(* port 2222; with a non-zero port it connects to exactly that port.       *)
C15_TransferPort ==
    InSaveLibrary =>
        \A i \in Events("ssh", "connect") :
            trace[i].port = (IF args.port = 0 THEN 2222 ELSE args.port)

C15_Witness ==
    /\ InSaveLibrary /\ Returned /\ args.port = 0
    /\ \E i \in Events("ssh", "connect") : trace[i].port = 2222

(* C16: no step of saveLibrary or removeFile closes the command            *)
(* connection: it is after the call what it was before; it is closed only  *)
(* between calls, by iclose, and iclose on a closed connection changes     *)
(* nothing.                                                                *)
C16_ConnectionBorrowed ==
    [][/\ (pc /= "idle" \/ pc' /= "idle") => conn' = conn
       /\ (conn = "open" /\ conn' /= "open") => Iclose
       /\ (conn = "closed" /\ Iclose) => UNCHANGED vars]_vars

C16_Witness ==
    /\ op \in {"saveLibrary", "removeFile"} /\ Returned /\ conn = "open"
    /\ result = "True" /\ Dispatched("DLTF")

(* C17: the steps of one saveLibrary call are attempted in the order       *)
(* CRTSAVF, SAVLIB, CPYTOSTMF, download, QSH rm, DLTF, each only after the *)
(* step before it succeeded in that call.                                  *)
C17_StepOrder ==
    InSaveLibrary =>
        \A i \in 1..Len(trace) :
            /\ StepRank(trace[i]) > 1
                => \E j \in 1..(i - 1) : StepSucceededAt(StepRank(trace[i]) - 1, j)
            /\ StepRank(trace[i]) > 0
                => \A j \in 1..(i - 1) : StepRank(trace[j]) < StepRank(trace[i])

C17_Witness ==
    /\ InSaveLibrary /\ Returned
    /\ Succeeded("DLTF")

(* C18: a saveLibrary call whose arguments pass validation returns True    *)
(* exactly when CRTSAVF and SAVLIB both succeeded; CPYTOSTMF, the          *)
(* download, QSH rm and DLTF do not change the returned value and raise    *)
(* nothing to the caller.                                                  *)
C18_ResultFromFirstTwoCommands ==
    (/\ InSaveLibrary /\ Returned
     /\ ~Falsy(args.library) /\ ~Falsy(args.saveFileName)
     /\ args.getZip => (~Falsy(args.remPath) /\ ~Falsy(args.localPath)))
    => (result = "True" <=> (Succeeded("CRTSAVF") /\ Succeeded("SAVLIB")))

(* C19: when the download succeeds exactly one QSH rm is dispatched, after *)
(* the download and before any DLTF, and it removes the path that the      *)
(* CPYTOSTMF of the call wrote to.                                         *)
C19_OneRmOfTheCopiedPath ==
    (InSaveLibrary /\ DownloadOk /\ pc /= "rm") =>
        /\ Cardinality(Events("cmd", "QSH")) = 1
        /\ \A r \in Events("cmd", "QSH") :
            /\ \A g \in Events("ssh", "get") : g < r
            /\ \A d \in Events("cmd", "DLTF") : r < d
            /\ \A c \in Events("cmd", "CPYTOSTMF") :
                \E k \in 1..Len(trace[c].text) :
                    /\ trace[c].text[k] = ".FILE') TOSTMF('"
                    /\ SubSeq(trace[r].text, 2, Len(trace[r].text) - 1)
                       = SubSeq(trace[c].text, k + 1, Len(trace[c].text) - 1)

C19_Witness ==
    /\ InSaveLibrary /\ Returned /\ DownloadOk
    /\ Succeeded("QSH") /\ Dispatched("DLTF")
    /\ args.remPath = <<"/","h","/">>

(* C20: when the download succeeds and the QSH rm fails, nothing is raised *)
(* to the caller, no rollback is issued, the final commit is performed and *)
(* the call returns True.                                                  *)
C20_RmFailureNotEscalated ==
    (InSaveLibrary /\ Returned /\ DownloadOk /\ Failed("QSH")) =>
        /\ result = "True"
        /\ ~RolledBack
        /\ trace[Len(trace)].ev = "tx" /\ trace[Len(trace)].kind = "commit"

----------------------------------------------------------------------------
(* Properties of the transfer session, of what a call leaves on the host,  *)
(* and of termination                                                      *)

(* transfer sessions open after the first n events: opened by a connect    *)
(* that returned and not closed since by a close that returned             *)
OpenSessions(n) ==
    Cardinality({i \in 1..n :
        /\ trace[i].ev = "ssh" /\ trace[i].kind = "connect" /\ trace[i].ok
        /\ ~\E j \in (i + 1)..n :
                trace[j].ev = "ssh" /\ trace[j].kind = "close" /\ trace[j].ok})

(* the tokens of a command text that close the name of the save file *)
NameClosers == {") TEXT('", ") TGTRLS(", ".FILE') TOSTMF('", ")"}

(* a command text with the characters of its names upper-cased, for        *)
(* comparing names without regard to case; the literal fragments stay      *)
RECURSIVE Fold(_)
Fold(text) ==
    IF text = <<>> THEN <<>>
    ELSE (IF Head(text) \in (DOMAIN UpperTable) \cup Unchanged
          THEN UpperChar(Head(text)) ELSE <<Head(text)>>) \o Fold(Tail(text))

(* the token after which a command of this kind names the save file *)
NameOpener(kind) ==
    CASE kind = "CRTSAVF" -> "CRTSAVF FILE("
      [] kind = "SAVLIB" -> ") DEV(*SAVF) SAVF("
      [] kind = "CPYTOSTMF" -> "CPYTOSTMF FROMMBR('/QSYS.LIB/"
      [] OTHER -> "DLTF FILE("

NameSeparator(kind) == IF kind = "CPYTOSTMF" THEN ".LIB/" ELSE "/"

C22_DownloadFailureLeavesFiles ==
    (InSaveLibrary /\ DownloadFailed) =>
        /\ ~RolledBack
        /\ ~Dispatched("QSH") /\ ~Dispatched("DLTF")
        /\ Returned =>
            /\ <<Upper(Owner), Upper(args.saveFileName)>> \in containers
            /\ \E c \in Events("cmd", "CPYTOSTMF") :
                \E k \in 1..Len(trace[c].text) :
                    /\ trace[c].text[k] = ".FILE') TOSTMF('"
                    /\ SubSeq(trace[c].text, k + 1, Len(trace[c].text) - 1) \in streamFiles

C22_Witness ==
    /\ InSaveLibrary /\ Returned /\ args.remSavf
    /\ loc.zip_file_result = "False"
    /\ \E i \in Events("ssh", "get") : trace[i].err = "other"
    /\ \E i \in Events("ssh", "close") : trace[i].err = "ssh"
    /\ streamFiles /= {}

(* C23: in one saveLibrary call each of CRTSAVF, SAVLIB, CPYTOSTMF, the    *)
(* download, QSH rm and DLTF is attempted at most once, whatever fails.    *)
C23_NoRetry ==
    InSaveLibrary =>
        \A rank \in 1..6 :
            Cardinality({i \in 1..Len(trace) : StepRank(trace[i]) = rank}) <= 1

C23_Witness ==
    /\ InSaveLibrary /\ Returned
    /\ Failed("DLTF")
    /\ \A rank \in 1..6 : \E i \in 1..Len(trace) : StepRank(trace[i]) = rank

(* C24: each call of __crtsavf and of removeFile on an open command        *)
(* connection dispatches one command and then issues one transaction       *)
(* action: commit and True when the command succeeded, rollback and False  *)
(* when it failed.                                                         *)
C24_OneCommandOneTransaction ==
    conn = "open" =>
        /\ \A i \in 1..Len(trace) :
            (trace[i].ev = "cmd" /\ trace[i].kind \in {"CRTSAVF", "DLTF"}) =>
                /\ i < Len(trace)
                /\ trace[i + 1].ev = "tx"
                /\ trace[i + 1].kind = (IF trace[i].ok THEN "commit" ELSE "rollback")
        /\ (op = "removeFile" /\ Returned) =>
                /\ Len(trace) = 2
                /\ trace[1].ev = "cmd" /\ trace[1].kind = "DLTF"
                /\ result = (IF trace[1].ok THEN "True" ELSE "False")
        /\ (InSaveLibrary /\ pc \notin {"idle", "crtsavf"} /\ ~ValidationError(args)) =>
                /\ Len(trace) >= 2
                /\ trace[1].ev = "cmd" /\ trace[1].kind = "CRTSAVF"
                /\ Len(trace) > 2 => trace[3].ev = "cmd"
                /\ trace[1].ok => (Len(trace) = 2 => pc = "savlib")
                /\ ~trace[1].ok => (Len(trace) = 2 /\ Returned /\ result = "False")

C26_NoRemovalWithoutGetZip ==
    (InSaveLibrary /\ ~args.getZip) =>
        /\ ~Dispatched("DLTF")
        /\ (Returned /\ result = "True")
            => <<Upper(Owner), Upper(args.saveFileName)>> \in containers

C26_Witness ==
    /\ InSaveLibrary /\ Returned /\ ~args.getZip /\ args.remSavf
    /\ result = "True"
    /\ <<Upper(Owner), Upper(args.saveFileName)>> \in containers

(* C27: when every remote call returns or fails, every saveLibrary call    *)
(* ends in one of True, False or a raised ValueError, after at most five   *)
(* remote commands and at most one transfer session.                       *)
C27_TerminalOutcome ==
    InSaveLibrary =>
        /\ Len(Commands) <= 5
        /\ Cardinality(Events("ssh", "connect")) <= 1
        /\ Returned => result \in {"True", "False", "ValueError"}

====
